---- MODULE Spec2Model ----
(***************************************************************************)
(* Model of audio/out/ao_coreaudio_exclusive.c: the CoreAudio exclusive    *)
(* mode audio output driver (init / uninit / pause / resume on the control *)
(* thread, render_cb_compressed on the device clock thread and             *)
(* property_listener_cb on the notification thread).                       *)
(*                                                                         *)
(* The CoreAudio device is the environment: every property access and      *)
(* device call may fail, which is a nondeterministic choice in the action  *)
(* that makes the call.                                                    *)
(***************************************************************************)
EXTENDS Integers, Sequences, FiniteSets, TLC

VARIABLES
    dev,        \* the device as the OS sees it: hog owner, mixing, formats, listeners,
                \* IOProc, and whether its calls may fail at all
    streams,    \* the sub-streams the device enumerates (kAudioDevicePropertyStreams)
    formats,    \* kAudioStreamPropertyAvailablePhysicalFormats of the stream
    pre,        \* the device state when init was entered
    ao,         \* struct ao: format, samplerate, channels.num, sstride
    p,          \* struct priv
    hwfmt,      \* init's local hwfmt
    pc,         \* position of the control thread
    ret,        \* what init returned
    log,        \* the calls the control thread made, in order, with their outcome
    lpc,        \* position of each notification delivery (property_listener_cb)
    lsaw,       \* per delivery: whether the read at line 89 succeeded, and whether
                \* the live format equalled stream_asbd
    delivered,  \* notification deliveries so far: how many found the recorded
                \* format, how many a different one, how many could not read it
    reloads,    \* number of calls of ao_request_reload
    rc          \* the last render_cb_compressed invocation: inputs, pull and status

vars == <<dev, streams, formats, pre, ao, p, hwfmt, pc, ret, log,
          lpc, lsaw, delivered, reloads, rc>>

ctlVars == <<dev, streams, formats, pre, ao, p, hwfmt, pc, ret, log>>
cbVars  == <<lpc, lsaw, delivered, reloads, rc>>

----------------------------------------------------------------------------
(* Bounds of the model *)

MaxFormats    == 2      \* entries of a candidate format list
MaxChannels   == 2      \* channel counts 1..MaxChannels
NListeners    == 2      \* concurrent notification deliveries
MaxDeliveries == 3      \* notification deliveries per session
MaxFrames     == 2      \* frames requested by one render callback (besides 1024)
MaxTime       == 1      \* mp_time_us() and ca_get_latency() values 0..MaxTime
MaxStreams    == 2      \* sub-streams a device enumerates

----------------------------------------------------------------------------
(* Values *)

MyPid    == 1           \* getpid(): the value ca_lock_device stores in hog_pid
DeviceID == 1           \* the AudioDeviceID ca_select_device resolves

NoFormatID == "0"       \* mFormatID of (AudioStreamBasicDescription){0}
FormatIDs  == {"lpcm", "cac3"}
Rates      == {48000, 96000}
Bits       == {16, 32}
Chans      == 1..MaxChannels

ASBDs == [mFormatID : FormatIDs \cup {NoFormatID}, mSampleRate : Rates,
          mBitsPerChannel : Bits, mChannelsPerFrame : Chans]

ZeroASBD == [mFormatID |-> NoFormatID, mSampleRate |-> 0,
             mBitsPerChannel |-> 0, mChannelsPerFrame |-> 0]

MkASBD(id, rate, bits, ch) ==
    [mFormatID |-> id, mSampleRate |-> rate,
     mBitsPerChannel |-> bits, mChannelsPerFrame |-> ch]

\* mp sample formats; "UNKNOWN" is 0
MpFormats == {"UNKNOWN", "S16", "S32", "S16P", "S_AC3"}

af_fmt_from_planar(f) == IF f = "S16P" THEN "S16" ELSE f
af_fmt_is_planar(f)   == f = "S16P"
af_fmt_is_pcm(f)      == f \in {"S16", "S32", "S16P"}
af_fmt_is_spdif(f)    == f = "S_AC3"
af_fmt_bits(f)        == IF f = "S32" THEN 32 ELSE 16

ca_asbd_to_mp_format(a) ==
    IF a.mFormatID = "lpcm" /\ a.mBitsPerChannel = 16 THEN "S16"
    ELSE IF a.mFormatID = "lpcm" /\ a.mBitsPerChannel = 32 THEN "S32"
    ELSE IF a.mFormatID = "cac3" THEN "S_AC3"
    ELSE "UNKNOWN"

ca_asbd_equals(a, b) == a = b

\* ASBD for the format the player asks for
ca_fill_asbd(a) ==
    MkASBD(IF af_fmt_is_spdif(a.format) THEN "cac3" ELSE "lpcm",
           a.samplerate, af_fmt_bits(a.format), a.channels)

\* frames / (float)ao->samplerate * 1e6
ca_frames_to_us(a, frames) == (frames * 1000000) \div a.samplerate

\* what the three latency properties of the device report, in frames (their
\* sum and its conversion stay far below the 32 bits of latency_frames and
\* hw_latency_us)
DeviceLatency == <<1, 2, 4>>
latency_properties ==
    <<"kAudioDevicePropertyLatency", "kAudioDevicePropertyBufferFrameSize",
      "kAudioDevicePropertySafetyOffset">>

Op(name, ok) == [op |-> name, ok |-> ok]

----------------------------------------------------------------------------
(* select_stream *)

\* direction: the stream's kAudioStreamPropertyDirection (0 is output);
\* dirOk: whether reading it at line 183 succeeds
StreamDescs == [dirOk : BOOLEAN, direction : {0, 1}, compressed : BOOLEAN]

StreamID(k) == k        \* AudioStreamID of the k-th enumerated stream (never 0)

RECURSIVE FirstUsable(_, _, _)
\* the loop at lines 181-198, from the k-th stream on: the stream it breaks
\* at, 0 when it runs to the end
FirstUsable(ss, fmt, k) ==
    IF k > Len(ss) THEN 0
    ELSE IF ss[k].dirOk /\ ss[k].direction # 0 THEN FirstUsable(ss, fmt, k + 1)
    ELSE IF af_fmt_is_pcm(fmt) \/ ss[k].compressed THEN k
    ELSE FirstUsable(ss, fmt, k + 1)

RECURSIVE FirstSupporting(_, _, _)
FirstSupporting(ss, fmt, k) ==
    IF k > Len(ss) THEN 0
    ELSE IF af_fmt_is_pcm(fmt) \/ ss[k].compressed THEN k
    ELSE FirstSupporting(ss, fmt, k + 1)

\* select_stream without the direction test of lines 183-186
select_stream_any_direction(a, pr, ss, listOk) ==
    IF ~listOk THEN [ret |-> -1, p |-> pr]
    ELSE LET k  == FirstSupporting(ss, a.format, 1)
             p2 == IF k = 0 THEN pr
                   ELSE [pr EXCEPT !.stream = StreamID(k), !.stream_idx = k - 1]
         IN  [ret |-> IF p2.stream_idx < 0 THEN -1 ELSE 0, p |-> p2]

\* listOk: whether CA_GET_ARY_O(kAudioDevicePropertyStreams) succeeded
select_stream(a, pr, ss, listOk) ==
    IF ~listOk THEN [ret |-> -1, p |-> pr]
    ELSE LET k  == FirstUsable(ss, a.format, 1)
             p2 == IF k = 0 THEN pr
                   ELSE [pr EXCEPT !.stream = StreamID(k), !.stream_idx = k - 1]
         IN  [ret |-> IF p2.stream_idx < 0 THEN -1 ELSE 0, p |-> p2]

----------------------------------------------------------------------------
(* find_best_format *)

Abs(x) == IF x < 0 THEN -x ELSE x

\* whether new ranks strictly better than old for the request req: format
\* family first, then closest sample rate, then highest bit depth, then
\* channel-count match
ca_asbd_is_better(req, old, new) ==
    IF new.mFormatID # req.mFormatID THEN FALSE
    ELSE IF old.mFormatID # req.mFormatID THEN TRUE
    ELSE LET dn == Abs(new.mSampleRate - req.mSampleRate)
             do == Abs(old.mSampleRate - req.mSampleRate)
         IN  IF dn # do THEN dn < do
             ELSE IF new.mBitsPerChannel # old.mBitsPerChannel
                  THEN new.mBitsPerChannel > old.mBitsPerChannel
             ELSE new.mChannelsPerFrame = req.mChannelsPerFrame
                  /\ old.mChannelsPerFrame # req.mChannelsPerFrame

RECURSIVE BestFromRanked(_, _, _, _)
BestFromRanked(req, fmts, j, out) ==
    IF j > Len(fmts) THEN out
    ELSE BestFromRanked(req, fmts, j + 1,
                        IF ca_asbd_is_better(req, out, fmts[j]) THEN fmts[j] ELSE out)

\* find_best_format without the "!out_fmt->mFormatID ||" of line 237
find_best_format_ranked_only(a, fmts, listOk) ==
    IF ~listOk THEN [ret |-> -1, out |-> ZeroASBD]
    ELSE LET out == BestFromRanked(ca_fill_asbd(a), fmts, 1, ZeroASBD)
         IN  [ret |-> IF out.mFormatID = NoFormatID THEN -1 ELSE 0, out |-> out]

RECURSIVE BestFrom(_, _, _, _)
\* the loop at lines 232-239 from the j-th candidate on, out_fmt being out
BestFrom(req, fmts, j, out) ==
    IF j > Len(fmts) THEN out
    ELSE BestFrom(req, fmts, j + 1,
                  IF out.mFormatID = NoFormatID \/ ca_asbd_is_better(req, out, fmts[j])
                  THEN fmts[j] ELSE out)

\* listOk: whether CA_GET_ARY(kAudioStreamPropertyAvailablePhysicalFormats) succeeded
find_best_format(a, fmts, listOk) ==
    IF ~listOk THEN [ret |-> -1, out |-> ZeroASBD]
    ELSE LET out == BestFrom(ca_fill_asbd(a), fmts, 1, ZeroASBD)
         IN  [ret |-> IF out.mFormatID = NoFormatID THEN -1 ELSE 0, out |-> out]

----------------------------------------------------------------------------
(* Device calls *)

\* the control thread's positions once init has returned CONTROL_TRUE
SessionPcs == {"running", "uninit_stop", "uninit_destroy", "uninit_format",
               "uninit_mixing", "uninit_unlock"}

\* outcomes of a device call made by the control thread: dev.faulty names
\* the phases ("init", "session") in which the device may refuse a call
Oks ==
    IF (IF pc \in SessionPcs THEN "session" ELSE "init") \in dev.faulty
    THEN BOOLEAN ELSE {TRUE}

\* ca_lock_device(device, &hog_pid): on success the process owns the device
ca_lock_device(d, pr, ok) ==
    IF ok THEN [dev |-> [d EXCEPT !.hog = MyPid], p |-> [pr EXCEPT !.hog_pid = MyPid]]
    ELSE [dev |-> d, p |-> [pr EXCEPT !.hog_pid = -1]]

\* ca_unlock_device(device, &hog_pid): releases only a lock this process
\* holds; with hog_pid = -1 it does nothing
ca_unlock_device(d, pr, ok) ==
    IF pr.hog_pid = MyPid
    THEN [dev |-> [d EXCEPT !.hog = IF ok THEN -1 ELSE @, !.releases = @ + 1],
          p |-> [pr EXCEPT !.hog_pid = -1], err |-> ~ok]
    ELSE [dev |-> d, p |-> pr, err |-> FALSE]

\* ca_disable_mixing(ao, device, &changed_mixing): changed_mixing records
\* the mixing state found, and mixing is switched off
ca_disable_mixing(d, pr, ok) ==
    IF ok THEN [dev |-> [d EXCEPT !.mixing = FALSE],
                p |-> [pr EXCEPT !.changed_mixing = d.mixing]]
    ELSE [dev |-> d, p |-> [pr EXCEPT !.changed_mixing = FALSE]]

\* ca_enable_mixing(ao, device, changed): switches mixing back on when
\* init had switched it off
ca_enable_mixing(d, changed, ok) ==
    IF changed /\ ok THEN [d EXCEPT !.mixing = TRUE] ELSE d

\* the virtual formats the stream may present once its physical format is f
VirtualFormats(f) == {f, [f EXCEPT !.mFormatID = NoFormatID]}

\* ca_change_physical_format_sync(ao, stream, f): the format is f when it
\* returns true and what it was when it returns false
ca_change_physical_format_sync(d, f, ok, v) ==
    IF ok THEN [d EXCEPT !.phys = f, !.virt = v] ELSE d

\* enable_property_listener: one add or remove per (selector, object); the
\* status is the first failure
ListenerSources == <<"kAudioDevicePropertyDeviceHasChanged", "kAudioHardwarePropertyDevices">>

\* enable_property_listener removing only the device's listener (n = 0)
enable_property_listener_asymmetric(d, enabled, oks) ==
    LET hit == {ListenerSources[n] : n \in {m \in 1..2 : oks[m]}}
    IN  [dev |-> [d EXCEPT !.listeners = IF enabled THEN @ \cup hit
                                        ELSE @ \ (hit \cap {ListenerSources[1]})],
         status |-> \A n \in 1..2 : oks[n]]

enable_property_listener(d, enabled, oks) ==
    LET hit == {ListenerSources[n] : n \in {m \in 1..2 : oks[m]}}
    IN  [dev |-> [d EXCEPT !.listeners = IF enabled THEN @ \cup hit ELSE @ \ hit],
         status |-> \A n \in 1..2 : oks[n]]

----------------------------------------------------------------------------
(* Initial states *)

priv_defaults ==
    [device |-> 0, paused |-> FALSE, render_cb |-> "NULL", hog_pid |-> -1,
     stream |-> 0, stream_idx |-> -1, stream_asbd |-> ZeroASBD,
     original_asbd |-> ZeroASBD, changed_mixing |-> FALSE,
     reload_requested |-> FALSE, hw_latency_us |-> 0]

\* no render callback yet
NoRender == [called |-> FALSE, requested |-> 0, now |-> 0, lat |-> 0, status |-> "none",
             pulls |-> 0, frames |-> 0, end |-> 0, after_error |-> FALSE]

\* the session before init: a device nobody hogs, with no listener and no IOProc
InitWith(faulty, mixings, aoFormats, strides, streamLists, formatLists) ==
    /\ dev \in [faulty : {faulty}, hog : {-1}, releases : {0}, mixing : mixings,
                phys : {MkASBD("lpcm", 96000, 32, 2)},
                virt : {MkASBD("lpcm", 96000, 32, 2)},
                listeners : {{}}, ioproc : {FALSE}, started : {FALSE}]
    /\ streams \in streamLists
    /\ formats \in formatLists
    /\ pre = dev
    /\ ao \in [format : aoFormats, samplerate : {48000}, channels : {2}, sstride : strides]
    /\ p = priv_defaults
    /\ hwfmt = ZeroASBD
    /\ pc = "idle"
    /\ ret = "none"
    /\ log = <<>>
    /\ lpc = [t \in 1..NListeners |-> "idle"]
    /\ lsaw = [t \in 1..NListeners |-> [ok |-> TRUE, eq |-> TRUE]]
    /\ delivered = [match |-> 0, differ |-> 0, unread |-> 0]
    /\ reloads = 0
    /\ rc = NoRender

SeqsUpTo(S, n) == UNION {[1..k -> S] : k \in 0..n}

PCM48 == MkASBD("lpcm", 48000, 16, 2)
AC3   == MkASBD("cac3", 48000, 16, 2)
OutStream == [dirOk |-> TRUE, direction |-> 0, compressed |-> TRUE]
InStream  == [dirOk |-> TRUE, direction |-> 1, compressed |-> TRUE]

----------------------------------------------------------------------------
(* init, lines 253-360 *)

Goto(l) == pc' = l
Logged(name, ok) == log' = Append(log, Op(name, ok))

\* init_select_device with CHECK_CA_ERROR in place of
\* CHECK_CA_ERROR_L(coreaudio_error_nounlock, ...) at line 258
init_select_device_unlocks ==
    /\ pc = "idle"
    /\ \E ok \in Oks :
        /\ Logged("ca_select_device", ok)
        /\ p' = IF ok THEN [p EXCEPT !.device = DeviceID] ELSE p
        /\ Goto(IF ok THEN "init_format" ELSE "coreaudio_error")
    /\ UNCHANGED <<dev, streams, formats, pre, ao, hwfmt, ret, cbVars>>

\* lines 257-258: ca_select_device, CHECK_CA_ERROR_L(coreaudio_error_nounlock)
init_select_device ==
    /\ pc = "idle"
    /\ \E ok \in Oks :
        /\ Logged("ca_select_device", ok)
        /\ p' = IF ok THEN [p EXCEPT !.device = DeviceID] ELSE p
        /\ Goto(IF ok THEN "init_format" ELSE "coreaudio_error_nounlock")
    /\ UNCHANGED <<dev, streams, formats, pre, ao, hwfmt, ret, cbVars>>

\* lines 260-265
init_format ==
    /\ pc = "init_format"
    /\ ao' = [ao EXCEPT !.format = af_fmt_from_planar(@)]
    /\ LET unsupported == ~af_fmt_is_pcm(ao'.format) /\ ~af_fmt_is_spdif(ao'.format) IN
        /\ Logged("format is pcm or spdif", ~unsupported)
        /\ Goto(IF unsupported THEN "coreaudio_error_nounlock" ELSE "init_alive")
    /\ UNCHANGED <<dev, streams, formats, pre, p, hwfmt, ret, cbVars>>

\* lines 267-272: a failed or negative aliveness check only warns
init_alive ==
    /\ pc = "init_alive"
    /\ \E ok \in Oks : Logged("kAudioDevicePropertyDeviceIsAlive", ok)
    /\ Goto("init_lock")
    /\ UNCHANGED <<dev, streams, formats, pre, ao, p, hwfmt, ret, cbVars>>

\* init_lock with CHECK_CA_ERROR in place of CHECK_CA_WARN at line 275
init_lock_fatal ==
    /\ pc = "init_lock"
    /\ \E ok \in Oks :
        LET r == ca_lock_device(dev, p, ok) IN
        /\ dev' = r.dev
        /\ p' = r.p
        /\ Logged("ca_lock_device", ok)
        /\ Goto(IF ok THEN "init_mixing" ELSE "coreaudio_error")
    /\ UNCHANGED <<streams, formats, pre, ao, hwfmt, ret, cbVars>>

\* lines 274-275
init_lock ==
    /\ pc = "init_lock"
    /\ \E ok \in Oks :
        LET r == ca_lock_device(dev, p, ok) IN
        /\ dev' = r.dev
        /\ p' = r.p
        /\ Logged("ca_lock_device", ok)
    /\ Goto("init_mixing")
    /\ UNCHANGED <<streams, formats, pre, ao, hwfmt, ret, cbVars>>

\* lines 277-278
init_mixing ==
    /\ pc = "init_mixing"
    /\ \E ok \in Oks :
        LET r == ca_disable_mixing(dev, p, ok) IN
        /\ dev' = r.dev
        /\ p' = r.p
        /\ Logged("ca_disable_mixing", ok)
    /\ Goto("init_select_stream")
    /\ UNCHANGED <<streams, formats, pre, ao, hwfmt, ret, cbVars>>

\* lines 280-281
init_select_stream ==
    /\ pc = "init_select_stream"
    /\ \E listOk \in Oks :
        LET r == select_stream(ao, p, streams, listOk) IN
        /\ p' = r.p
        /\ log' = log \o <<Op("get kAudioDevicePropertyStreams", listOk),
                           Op("select_stream", r.ret >= 0)>>
        /\ Goto(IF r.ret < 0 THEN "coreaudio_error" ELSE "init_find_best_format")
    /\ UNCHANGED <<dev, streams, formats, pre, ao, hwfmt, ret, cbVars>>

\* lines 283-285
init_find_best_format ==
    /\ pc = "init_find_best_format"
    /\ \E listOk \in Oks :
        LET r == find_best_format(ao, formats, listOk) IN
        /\ hwfmt' = r.out
        /\ log' = log \o <<Op("get kAudioStreamPropertyAvailablePhysicalFormats", listOk),
                           Op("find_best_format", r.ret >= 0)>>
        /\ Goto(IF r.ret < 0 THEN "coreaudio_error" ELSE "init_original_format")
    /\ UNCHANGED <<dev, streams, formats, pre, ao, p, ret, cbVars>>

\* init_original_format without the goto of line 289
init_original_format_unchecked ==
    /\ pc = "init_original_format"
    /\ \E ok \in Oks :
        /\ p' = IF ok THEN [p EXCEPT !.original_asbd = dev.phys] ELSE p
        /\ Logged("get kAudioStreamPropertyPhysicalFormat", ok)
        /\ Goto("init_change_format")
    /\ UNCHANGED <<dev, streams, formats, pre, ao, hwfmt, ret, cbVars>>

\* lines 287-289
init_original_format ==
    /\ pc = "init_original_format"
    /\ \E ok \in Oks :
        /\ p' = IF ok THEN [p EXCEPT !.original_asbd = dev.phys] ELSE p
        /\ Logged("get kAudioStreamPropertyPhysicalFormat", ok)
        /\ Goto(IF ok THEN "init_change_format" ELSE "coreaudio_error")
    /\ UNCHANGED <<dev, streams, formats, pre, ao, hwfmt, ret, cbVars>>

\* lines 291-292
init_change_format ==
    /\ pc = "init_change_format"
    /\ \E ok \in Oks, v \in VirtualFormats(hwfmt) :
        /\ dev' = ca_change_physical_format_sync(dev, hwfmt, ok, v)
        /\ Logged("ca_change_physical_format_sync(hwfmt)", ok)
        /\ Goto(IF ok THEN "init_chmap" ELSE "coreaudio_error")
    /\ UNCHANGED <<streams, formats, pre, ao, p, hwfmt, ret, cbVars>>

\* init_chmap without the goto of line 295
init_chmap_unchecked ==
    /\ pc = "init_chmap"
    /\ \E ok \in Oks, ch \in Chans :
        /\ ao' = IF ok THEN [ao EXCEPT !.channels = ch] ELSE ao
        /\ Logged("ca_init_chmap", ok)
        /\ Goto("init_virtual_format")
    /\ UNCHANGED <<dev, streams, formats, pre, p, hwfmt, ret, cbVars>>

\* lines 294-295: ca_init_chmap sets ao->channels to the layout of the hardware
init_chmap ==
    /\ pc = "init_chmap"
    /\ \E ok \in Oks, ch \in Chans :
        /\ ao' = IF ok THEN [ao EXCEPT !.channels = ch] ELSE ao
        /\ Logged("ca_init_chmap", ok)
        /\ Goto(IF ok THEN "init_virtual_format" ELSE "coreaudio_error")
    /\ UNCHANGED <<dev, streams, formats, pre, p, hwfmt, ret, cbVars>>

\* lines 297-320
init_virtual_format ==
    /\ pc = "init_virtual_format"
    /\ \E ok \in Oks :
        LET asbd       == IF ok THEN dev.virt ELSE p.stream_asbd
            new_format == ca_asbd_to_mp_format(asbd)
            fmt        == IF ~(af_fmt_is_spdif(ao.format) /\ af_fmt_is_spdif(new_format))
                          THEN new_format ELSE ao.format
            unsupported == fmt = "UNKNOWN" \/ af_fmt_is_planar(fmt)
            mismatch    == ao.channels # asbd.mChannelsPerFrame
        IN
        /\ log' = log \o <<Op("get kAudioStreamPropertyVirtualFormat", ok)>>
                       \o (IF ok THEN <<Op("hardware format supported", ~unsupported)>>
                           ELSE <<>>)
                       \o (IF ok /\ ~unsupported
                           THEN <<Op("number of channels unchanged", ~mismatch)>>
                           ELSE <<>>)
        /\ p' = [p EXCEPT !.stream_asbd = asbd]
        /\ ao' = IF ~ok THEN ao
                 ELSE IF unsupported THEN [ao EXCEPT !.format = fmt]
                 ELSE [ao EXCEPT !.format = fmt, !.samplerate = asbd.mSampleRate]
        /\ Goto(IF ok /\ ~unsupported /\ ~mismatch THEN "init_latency"
                ELSE "coreaudio_error")
    /\ UNCHANGED <<dev, streams, formats, pre, hwfmt, ret, cbVars>>

RECURSIVE LatencyFrames(_, _)
\* the loop at lines 328-337 from the n-th property on
LatencyFrames(oks, n) ==
    IF n > Len(latency_properties) THEN 0
    ELSE (IF oks[n] THEN DeviceLatency[n] ELSE 0) + LatencyFrames(oks, n + 1)

\* lines 322-340
init_latency ==
    /\ pc = "init_latency"
    /\ \E oks \in [1..3 -> Oks] :
        /\ p' = [p EXCEPT !.hw_latency_us = ca_frames_to_us(ao, LatencyFrames(oks, 1))]
        /\ log' = log \o [n \in 1..3 |-> Op(latency_properties[n], oks[n])]
    /\ Goto("init_listener")
    /\ UNCHANGED <<dev, streams, formats, pre, ao, hwfmt, ret, cbVars>>

\* lines 342-343
init_listener ==
    /\ pc = "init_listener"
    /\ \E oks \in [1..2 -> Oks] :
        LET r == enable_property_listener(dev, TRUE, oks) IN
        /\ dev' = r.dev
        /\ Logged("enable_property_listener(true)", r.status)
        /\ Goto(IF r.status THEN "init_render_cb" ELSE "coreaudio_error")
    /\ UNCHANGED <<streams, formats, pre, ao, p, hwfmt, ret, cbVars>>

\* lines 345-351
init_render_cb ==
    /\ pc = "init_render_cb"
    /\ \E ok \in Oks :
        /\ dev' = IF ok THEN [dev EXCEPT !.ioproc = TRUE] ELSE dev
        /\ p' = IF ok THEN [p EXCEPT !.render_cb = "render_cb_compressed"] ELSE p
        /\ Logged("AudioDeviceCreateIOProcID", ok)
        /\ Goto(IF ok THEN "running" ELSE "coreaudio_error")
        /\ ret' = IF ok THEN "CONTROL_TRUE" ELSE ret
    /\ UNCHANGED <<streams, formats, pre, ao, hwfmt, cbVars>>

\* lines 353-355
coreaudio_error ==
    /\ pc = "coreaudio_error"
    /\ \E oks \in [1..2 -> Oks] :
        LET r == enable_property_listener(dev, FALSE, oks) IN
        /\ dev' = r.dev
        /\ Logged("enable_property_listener(false)", r.status)
    /\ Goto("coreaudio_error_unlock")
    /\ UNCHANGED <<streams, formats, pre, ao, p, hwfmt, ret, cbVars>>

\* the error path without the ca_unlock_device of line 356
coreaudio_error_no_unlock ==
    /\ pc = "coreaudio_error_unlock"
    /\ Goto("init_failed")
    /\ ret' = "CONTROL_ERROR"
    /\ UNCHANGED <<dev, streams, formats, pre, ao, p, hwfmt, log, cbVars>>

\* lines 356-357, falling through to 358-359
coreaudio_error_unlock ==
    /\ pc = "coreaudio_error_unlock"
    /\ \E ok \in Oks :
        LET r == ca_unlock_device(dev, p, ok) IN
        /\ dev' = r.dev
        /\ p' = r.p
        /\ Logged("ca_unlock_device", ~r.err)
    /\ Goto("init_failed")
    /\ ret' = "CONTROL_ERROR"
    /\ UNCHANGED <<streams, formats, pre, ao, hwfmt, cbVars>>

\* lines 358-359
coreaudio_error_nounlock ==
    /\ pc = "coreaudio_error_nounlock"
    /\ Goto("init_failed")
    /\ ret' = "CONTROL_ERROR"
    /\ UNCHANGED <<dev, streams, formats, pre, ao, p, hwfmt, log, cbVars>>

----------------------------------------------------------------------------
(* uninit, lines 362-384 *)

\* lines 367-368
uninit_listener ==
    /\ pc = "running"
    /\ \E oks \in [1..2 -> Oks] :
        LET r == enable_property_listener(dev, FALSE, oks) IN
        /\ dev' = r.dev
        /\ Logged("enable_property_listener(false)", r.status)
    /\ Goto("uninit_stop")
    /\ UNCHANGED <<streams, formats, pre, ao, p, hwfmt, ret, cbVars>>

\* uninit_stop going on to the format restore without lines 373-374
uninit_stop_skips_destroy ==
    /\ pc = "uninit_stop"
    /\ \E ok \in Oks :
        /\ dev' = IF ok THEN [dev EXCEPT !.started = FALSE] ELSE dev
        /\ Logged("AudioDeviceStop", ok)
    /\ Goto("uninit_format")
    /\ UNCHANGED <<streams, formats, pre, ao, p, hwfmt, ret, cbVars>>

\* lines 370-371
uninit_stop ==
    /\ pc = "uninit_stop"
    /\ \E ok \in Oks :
        /\ dev' = IF ok THEN [dev EXCEPT !.started = FALSE] ELSE dev
        /\ Logged("AudioDeviceStop", ok)
    /\ Goto("uninit_destroy")
    /\ UNCHANGED <<streams, formats, pre, ao, p, hwfmt, ret, cbVars>>

\* uninit_destroy returning when the call fails
uninit_destroy_or_return ==
    /\ pc = "uninit_destroy"
    /\ \E ok \in Oks :
        /\ dev' = IF ok THEN [dev EXCEPT !.ioproc = FALSE, !.started = FALSE] ELSE dev
        /\ Logged("AudioDeviceDestroyIOProcID", ok)
        /\ Goto(IF ok THEN "uninit_format" ELSE "uninit_done")
    /\ UNCHANGED <<streams, formats, pre, ao, p, hwfmt, ret, cbVars>>

\* lines 373-374
uninit_destroy ==
    /\ pc = "uninit_destroy"
    /\ \E ok \in Oks :
        /\ dev' = IF ok THEN [dev EXCEPT !.ioproc = FALSE, !.started = FALSE] ELSE dev
        /\ Logged("AudioDeviceDestroyIOProcID", ok)
    /\ Goto("uninit_format")
    /\ UNCHANGED <<streams, formats, pre, ao, p, hwfmt, ret, cbVars>>

\* lines 376-377
uninit_format ==
    /\ pc = "uninit_format"
    /\ \E ok \in Oks, v \in VirtualFormats(p.original_asbd) :
        /\ dev' = ca_change_physical_format_sync(dev, p.original_asbd, ok, v)
        /\ Logged("ca_change_physical_format_sync(original_asbd)", ok)
    /\ Goto("uninit_mixing")
    /\ UNCHANGED <<streams, formats, pre, ao, p, hwfmt, ret, cbVars>>

\* uninit_mixing re-enabling mixing whatever changed_mixing says
uninit_mixing_unconditional ==
    /\ pc = "uninit_mixing"
    /\ \E ok \in Oks :
        /\ dev' = ca_enable_mixing(dev, TRUE, ok)
        /\ Logged("ca_enable_mixing", ok)
    /\ Goto("uninit_unlock")
    /\ UNCHANGED <<streams, formats, pre, ao, p, hwfmt, ret, cbVars>>

\* lines 379-380
uninit_mixing ==
    /\ pc = "uninit_mixing"
    /\ \E ok \in Oks :
        /\ dev' = ca_enable_mixing(dev, p.changed_mixing, ok)
        /\ Logged("ca_enable_mixing", ok)
    /\ Goto("uninit_unlock")
    /\ UNCHANGED <<streams, formats, pre, ao, p, hwfmt, ret, cbVars>>

\* lines 382-383
uninit_unlock ==
    /\ pc = "uninit_unlock"
    /\ \E ok \in Oks :
        LET r == ca_unlock_device(dev, p, ok) IN
        /\ dev' = r.dev
        /\ p' = r.p
        /\ Logged("ca_unlock_device", ~r.err)
    /\ Goto("uninit_done")
    /\ UNCHANGED <<streams, formats, pre, ao, hwfmt, ret, cbVars>>

----------------------------------------------------------------------------
(* pause and resume, lines 386-400; their calls are not kept in log *)

\* audio_pause also recording the pause in priv.paused
audio_pause_sets_paused ==
    /\ pc = "running"
    /\ \E ok \in Oks : dev' = IF ok THEN [dev EXCEPT !.started = FALSE] ELSE dev
    /\ p' = [p EXCEPT !.paused = TRUE]
    /\ UNCHANGED <<streams, formats, pre, ao, hwfmt, pc, ret, log, cbVars>>

audio_pause ==
    /\ pc = "running"
    /\ \E ok \in Oks : dev' = IF ok THEN [dev EXCEPT !.started = FALSE] ELSE dev
    /\ UNCHANGED <<streams, formats, pre, ao, p, hwfmt, pc, ret, log, cbVars>>

audio_resume ==
    /\ pc = "running"
    /\ \E ok \in Oks : dev' = IF ok THEN [dev EXCEPT !.started = TRUE] ELSE dev
    /\ UNCHANGED <<streams, formats, pre, ao, p, hwfmt, pc, ret, log, cbVars>>

----------------------------------------------------------------------------
(* property_listener_cb, lines 79-101, one delivery per thread t at a time *)

\* the hardware changes the stream's format under the session
hw_reconfigure ==
    /\ pc = "running"
    /\ \E v \in VirtualFormats(dev.phys) \ {dev.virt} : dev' = [dev EXCEPT !.virt = v]
    /\ UNCHANGED <<streams, formats, pre, ao, p, hwfmt, pc, ret, log, cbVars>>

\* line 91 with the negation of ca_asbd_equals lost
listener_mismatch_unnegated(ok, live) == ~ok \/ ca_asbd_equals(p.stream_asbd, live)

\* line 91 without "err != noErr ||"
listener_mismatch_ignoring_err(ok, live) == ~ca_asbd_equals(p.stream_asbd, live)

\* the condition at line 91
listener_mismatch(ok, live) == ~ok \/ ~ca_asbd_equals(p.stream_asbd, live)

\* lines 89-91: a notification is delivered; read the live format and compare
listener_read(t) ==
    /\ dev.listeners # {}
    /\ lpc[t] = "idle"
    /\ delivered.match + delivered.differ + delivered.unread < MaxDeliveries
    /\ \E ok \in BOOLEAN :
        LET eq == p.stream_asbd = dev.virt IN
        /\ lsaw' = [lsaw EXCEPT ![t] = [ok |-> ok, eq |-> eq]]
        /\ delivered' = IF ~eq THEN [delivered EXCEPT !.differ = @ + 1]
                        ELSE IF ok THEN [delivered EXCEPT !.match = @ + 1]
                        ELSE [delivered EXCEPT !.unread = @ + 1]
        /\ lpc' = [lpc EXCEPT ![t] = IF listener_mismatch(ok, dev.virt)
                                     THEN "cas" ELSE "idle"]
    /\ UNCHANGED <<ctlVars, reloads, rc>>

\* a plain store in place of the compare-and-set
compare_exchange_store(flag) == [flag |-> TRUE, won |-> TRUE]

\* what atomic_compare_exchange_strong(&reload_requested, &(bool){false}, true)
\* leaves in the flag, and whether it succeeded
compare_exchange(flag) == [flag |-> TRUE, won |-> flag = FALSE]

\* lines 92-93
listener_cas(t) ==
    /\ lpc[t] = "cas"
    /\ LET r == compare_exchange(p.reload_requested) IN
        /\ p' = [p EXCEPT !.reload_requested = r.flag]
        /\ lpc' = [lpc EXCEPT ![t] = IF r.won THEN "reload" ELSE "idle"]
    /\ UNCHANGED <<dev, streams, formats, pre, ao, hwfmt, pc, ret, log,
                   lsaw, delivered, reloads, rc>>

\* lines 95-96: ao_request_reload
listener_reload(t) ==
    /\ lpc[t] = "reload"
    /\ reloads' = reloads + 1
    /\ lpc' = [lpc EXCEPT ![t] = "idle"]
    /\ UNCHANGED <<ctlVars, lsaw, delivered, rc>>

----------------------------------------------------------------------------
(* render_cb_compressed, lines 137-162 *)

\* byte counts the device clock asks for: up to MaxFrames frames, aligned or
\* not, and a 4096 byte buffer
RequestedSizes ==
    {f * ao.sstride + o : f \in 0..MaxFrames, o \in 0..(ao.sstride - 1)} \cup {4096}

\* render_cb_compressed without the alignment check of lines 150-153
render_result_unchecked(requested, now, lat) ==
    LET pseudo_frames == requested \div ao.sstride IN
    [status |-> "noErr", pulls |-> 1, frames |-> pseudo_frames,
     end |-> now + p.hw_latency_us + lat + ca_frames_to_us(ao, pseudo_frames)]

\* render_cb_compressed without p->hw_latency_us in the sum of line 156
render_result_no_base_latency(requested, now, lat) ==
    LET pseudo_frames == requested \div ao.sstride IN
    IF pseudo_frames * ao.sstride # requested
    THEN [status |-> "kAudioHardwareUnspecifiedError", pulls |-> 0, frames |-> 0, end |-> 0]
    ELSE [status |-> "noErr", pulls |-> 1, frames |-> pseudo_frames,
          end |-> now + lat + ca_frames_to_us(ao, pseudo_frames)]

\* the callback for a buffer of requested bytes at time now, ca_get_latency(ts)
\* being lat
render_result(requested, now, lat) ==
    LET pseudo_frames == requested \div ao.sstride IN
    IF pseudo_frames * ao.sstride # requested
    THEN [status |-> "kAudioHardwareUnspecifiedError", pulls |-> 0, frames |-> 0, end |-> 0]
    ELSE [status |-> "noErr", pulls |-> 1, frames |-> pseudo_frames,
          end |-> now + p.hw_latency_us + lat + ca_frames_to_us(ao, pseudo_frames)]

render_cb_compressed ==
    /\ dev.ioproc /\ dev.started
    /\ \E requested \in RequestedSizes, now \in 0..MaxTime, lat \in 0..MaxTime :
        LET r == render_result(requested, now, lat) IN
        rc' = [called |-> TRUE, requested |-> requested, now |-> now, lat |-> lat,
               status |-> r.status, pulls |-> r.pulls, frames |-> r.frames,
               end |-> r.end,
               after_error |-> rc.after_error
                               \/ (rc.called /\ rc.status # "noErr")]
    /\ UNCHANGED <<ctlVars, lpc, lsaw, delivered, reloads>>

----------------------------------------------------------------------------
(* Specifications *)

init ==
    \/ init_select_device \/ init_format \/ init_alive \/ init_lock
    \/ init_mixing \/ init_select_stream \/ init_find_best_format
    \/ init_original_format \/ init_change_format \/ init_chmap
    \/ init_virtual_format \/ init_latency \/ init_listener \/ init_render_cb
    \/ coreaudio_error \/ coreaudio_error_unlock \/ coreaudio_error_nounlock

uninit ==
    \/ uninit_listener \/ uninit_stop \/ uninit_destroy
    \/ uninit_format \/ uninit_mixing \/ uninit_unlock

property_listener_cb ==
    \E t \in 1..NListeners : listener_read(t) \/ listener_cas(t) \/ listener_reload(t)

\* The control thread on a device whose calls may fail
Init ==
    InitWith({"init", "session"}, BOOLEAN, {"S16", "S16P", "S_AC3", "UNKNOWN"}, {4},
             {<<>>, <<InStream, OutStream>>},
             {<<>>, <<PCM48>>, <<AC3, PCM48>>})

Next == init \/ uninit \/ audio_pause \/ audio_resume

Spec == Init /\ [][Next]_vars

\* The control thread on a device whose calls succeed
InitReliable ==
    InitWith({}, BOOLEAN, {"S16", "S16P", "S_AC3", "UNKNOWN"}, {4},
             {<<>>, <<InStream, OutStream>>},
             {<<>>, <<PCM48>>, <<AC3, PCM48>>})

SpecReliable == InitReliable /\ [][Next]_vars

\* The notification thread beside the control thread, on a device whose
\* calls succeed
InitWatcher ==
    InitWith({}, {TRUE}, {"S_AC3", "UNKNOWN"}, {4},
             {<<>>, <<InStream, OutStream>>}, {<<AC3, PCM48>>})

NextWatcher == init \/ uninit \/ hw_reconfigure \/ property_listener_cb

SpecWatcher == InitWatcher /\ [][NextWatcher]_vars

\* The device clock thread beside the control thread
InitRender ==
    InitWith({}, {TRUE}, {"S16", "S_AC3", "UNKNOWN"}, {3, 4},
             {<<>>, <<InStream, OutStream>>}, {<<AC3, PCM48>>})

NextRender == init \/ uninit \/ audio_pause \/ audio_resume \/ render_cb_compressed

SpecRender == InitRender /\ [][NextRender]_vars

\* Format negotiation over every candidate list, on a device whose calls succeed
CandidateASBDs ==
    [mFormatID : FormatIDs \cup {NoFormatID}, mSampleRate : Rates,
     mBitsPerChannel : Bits, mChannelsPerFrame : {1, 2}]

InitNegotiate ==
    InitWith({}, {TRUE}, {"S16", "S_AC3", "UNKNOWN"}, {4}, {<<OutStream>>},
             SeqsUpTo(CandidateASBDs, MaxFormats))

NextNegotiate ==
    \/ init_select_device \/ init_format \/ init_alive \/ init_lock
    \/ init_mixing \/ init_select_stream \/ init_find_best_format
    \/ coreaudio_error \/ coreaudio_error_unlock \/ coreaudio_error_nounlock

SpecNegotiate == InitNegotiate /\ [][NextNegotiate]_vars

\* Stream selection over every enumeration of sub-streams, on a device whose
\* calls succeed (a stream's direction read fails where its dirOk says so)
InitSelect ==
    InitWith({}, {TRUE}, {"S16", "S_AC3", "UNKNOWN"}, {4},
             SeqsUpTo(StreamDescs, MaxStreams), {<<AC3, PCM48>>})

NextSelect ==
    \/ init_select_device \/ init_format \/ init_alive \/ init_lock
    \/ init_mixing \/ init_select_stream
    \/ coreaudio_error \/ coreaudio_error_unlock \/ coreaudio_error_nounlock

SpecSelect == InitSelect /\ [][NextSelect]_vars

\* A whole session on a device whose calls succeed: the control thread beside
\* the notification deliveries and the device clock thread's render callback
InitSession ==
    InitWith({}, {TRUE}, {"S_AC3", "UNKNOWN"}, {4}, {<<>>, <<InStream, OutStream>>},
             {<<AC3, PCM48>>})

NextSession ==
    \/ init \/ uninit \/ audio_pause \/ audio_resume
    \/ property_listener_cb \/ render_cb_compressed

SpecSession == InitSession /\ [][NextSession]_vars

\* The control thread beside the device clock thread's render callback, on a
\* device that may refuse any call made once the session runs (pause, resume
\* and every step of uninit)
InitTeardown ==
    InitWith({"session"}, {TRUE}, {"S_AC3", "UNKNOWN"}, {4},
             {<<>>, <<InStream, OutStream>>}, {<<AC3, PCM48>>})

NextTeardown == init \/ uninit \/ audio_pause \/ audio_resume \/ render_cb_compressed

SpecTeardown == InitTeardown /\ [][NextTeardown]_vars

----------------------------------------------------------------------------
(* Properties *)

Occurs(name, ok) == \E i \in 1..Len(log) : log[i] = Op(name, ok)
Failed(names) == \E i \in 1..Len(log) : log[i].op \in names /\ ~log[i].ok
LastOp == IF log = <<>> THEN Op("none", TRUE) ELSE log[Len(log)]

ErrorPcs == {"coreaudio_error", "coreaudio_error_unlock", "coreaudio_error_nounlock",
             "init_failed"}
InitPcs == {"idle", "init_format", "init_alive", "init_lock", "init_mixing",
            "init_select_stream", "init_find_best_format", "init_original_format",
            "init_change_format", "init_chmap", "init_virtual_format", "init_latency",
            "init_listener", "init_render_cb"}
UninitPcs == {"uninit_stop", "uninit_destroy", "uninit_format", "uninit_mixing",
              "uninit_unlock"}
Quiescent == \A t \in 1..NListeners : lpc[t] = "idle"
Aligned == rc.requested % ao.sstride = 0

\* C1: when init returns an error the device is as it was before init: the
\* hog lock is released, mixing and the physical format are what they were,
\* no listener is subscribed and no render callback is registered.
C1_RollbackComplete ==
    pc = "init_failed" =>
        /\ dev.hog = pre.hog
        /\ dev.mixing = pre.mixing
        /\ dev.phys = pre.phys
        /\ dev.listeners = {}
        /\ ~dev.ioproc

\* C2: once every delivery has returned, one or more deliveries that found a
\* different live format have caused exactly one ao_request_reload in total;
\* with only deliveries that read the recorded format there is none and the
\* flag is still false; such a delivery changes neither the flag nor the
\* number of reloads; and reload_requested never goes from true to false.
C2_EdgeTriggered ==
    /\ [](/\ (Quiescent /\ delivered.differ >= 1) => reloads = 1
          /\ (delivered.differ = 0 /\ delivered.unread = 0)
                => (reloads = 0 /\ ~p.reload_requested))
    /\ [][/\ delivered'.match # delivered.match
             => (reloads' = reloads /\ lpc' = lpc
                 /\ p'.reload_requested = p.reload_requested)
          /\ p.reload_requested => p'.reload_requested]_vars

C2_Witness ==
    /\ Quiescent
    /\ delivered.differ >= 2
    /\ delivered.match >= 1
    /\ reloads = 1

\* C3: however concurrent deliveries interleave, ao_request_reload is called
\* at most once: the calls made and the deliveries about to make one number
\* one when the flag is set and none when it is not.
C3_SingleWinner ==
    reloads + Cardinality({t \in 1..NListeners : lpc[t] = "reload"})
        = IF p.reload_requested THEN 1 ELSE 0

C3_Witness ==
    \E t, u \in 1..NListeners :
        /\ lpc[t] = "reload"
        /\ lpc[u] = "cas"
        /\ reloads = 0

\* C4: a render callback for a byte count that is no multiple of the stride
\* returns the hardware error and pulls nothing; no render callback changes
\* the session or the device, and an aligned callback after a failed one is
\* served.
C4_UnalignedRejected ==
    /\ []((rc.called /\ ~Aligned)
            => (rc.status = "kAudioHardwareUnspecifiedError" /\ rc.pulls = 0))
    /\ []((rc.called /\ Aligned /\ rc.after_error)
            => (rc.status = "noErr" /\ rc.pulls = 1))
    /\ [][rc' # rc => UNCHANGED <<dev, ao, p, pc>>]_vars

C4_Witness ==
    /\ rc.called
    /\ ~Aligned
    /\ rc.status = "kAudioHardwareUnspecifiedError"
    /\ pc = "running"

\* C5: a render callback for a multiple of the stride pulls once, requested /
\* stride frames, with the deadline now + hw_latency_us + callback latency +
\* frames_to_us(frames), and returns noErr; 4096 bytes at stride 4 pull 1024
\* frames.
C5_AlignedPull ==
    (rc.called /\ Aligned) =>
        /\ rc.status = "noErr"
        /\ rc.pulls = 1
        /\ rc.frames * ao.sstride = rc.requested
        /\ rc.end = rc.now + p.hw_latency_us + rc.lat + ca_frames_to_us(ao, rc.frames)
        /\ (rc.requested = 4096 /\ ao.sstride = 4) => rc.frames = 1024

C5_Witness ==
    /\ rc.called
    /\ rc.requested = 4096
    /\ ao.sstride = 4
    /\ rc.frames = 1024
    /\ rc.lat > 0
    /\ p.hw_latency_us > 0

\* C6: uninit goes on from each of its steps whatever the step's outcome,
\* and when it returns its six steps have all been made, in order.
TeardownSteps ==
    <<"enable_property_listener(false)", "AudioDeviceStop", "AudioDeviceDestroyIOProcID",
      "ca_change_physical_format_sync(original_asbd)", "ca_enable_mixing",
      "ca_unlock_device">>

C6_TeardownTotal ==
    /\ pc \in UninitPcs => ENABLED uninit
    /\ pc = "uninit_done" =>
        /\ Len(log) >= 6
        /\ \A k \in 1..6 : log[Len(log) - 6 + k].op = TeardownSteps[k]

C6_Witness ==
    /\ pc = "uninit_done"
    /\ \A k \in 1..6 : log[Len(log) - 6 + k] = Op(TeardownSteps[k], FALSE)

\* C7: the hog lock is released at most once; when the session is over
\* (init failed, or uninit returned) a lock init acquired has been released
\* once and a lock never acquired not at all; ca_unlock_device with
\* hog_pid = -1 changes neither the device nor the session.
LockAcquired == Occurs("ca_lock_device", TRUE)

C7_ReleasedOnce ==
    /\ [](/\ dev.releases <= 1
          /\ (pc \in {"init_failed", "uninit_done"} /\ LockAcquired) => dev.releases = 1
          /\ ~LockAcquired => dev.releases = 0)
    /\ [][(pc \in {"coreaudio_error_unlock", "uninit_unlock"} /\ p.hog_pid = -1)
            => UNCHANGED <<dev, p>>]_vars

C7_Witness ==
    /\ pc = "init_failed"
    /\ LockAcquired
    /\ dev.releases = 1
    /\ dev.hog = -1
    /\ p.hog_pid = -1

\* C8: once device selection, stream selection, format negotiation, the
\* format switch or channel-map init has failed, init is on its error path:
\* it goes on to return CONTROL_ERROR, does not reach the running state and
\* does not register the render callback.
FatalSteps ==
    {"ca_select_device", "select_stream", "find_best_format",
     "ca_change_physical_format_sync(hwfmt)", "ca_init_chmap"}

C8_FatalAborts ==
    Failed(FatalSteps) =>
        /\ pc \in ErrorPcs
        /\ pc # "init_failed" => ENABLED init
        /\ pc = "init_failed" => ret = "CONTROL_ERROR"
        /\ ret # "CONTROL_TRUE"
        /\ ~dev.ioproc
        /\ p.render_cb = "NULL"
        /\ ~Occurs("AudioDeviceCreateIOProcID", TRUE)
        /\ ~Occurs("AudioDeviceCreateIOProcID", FALSE)

C8_Witness ==
    /\ pc = "init_failed"
    /\ ret = "CONTROL_ERROR"
    /\ Occurs("ca_init_chmap", FALSE)

\* C9: init is on its error path only after a step other than the aliveness
\* check, the hog lock, disabling mixing and the three latency queries has
\* failed, and otherwise goes on to its next step; when it has succeeded,
\* hw_latency_us is the sum of the latency properties that could be read, a
\* failed query counting zero frames.
WarningSteps ==
    {"kAudioDevicePropertyDeviceIsAlive", "ca_lock_device", "ca_disable_mixing",
     latency_properties[1], latency_properties[2], latency_properties[3]}

ReadLatency(n) == IF Occurs(latency_properties[n], TRUE) THEN DeviceLatency[n] ELSE 0

C9_WarningsDoNotAbort ==
    /\ pc \in ErrorPcs => \E i \in 1..Len(log) : log[i].op \notin WarningSteps /\ ~log[i].ok
    /\ pc \in InitPcs => ENABLED init
    /\ pc = "running" =>
        /\ ret = "CONTROL_TRUE"
        /\ p.hw_latency_us
             = ca_frames_to_us(ao, ReadLatency(1) + ReadLatency(2) + ReadLatency(3))

C9_Witness ==
    /\ pc = "running"
    /\ ret = "CONTROL_TRUE"
    /\ \A w \in WarningSteps \ {latency_properties[2]} : Occurs(w, FALSE)
    /\ p.hw_latency_us = ca_frames_to_us(ao, DeviceLatency[2])

\* C10: when the negotiator has run over a candidate list with an entry
\* whose mFormatID is not 0 it has succeeded with a member of the list; over
\* the empty list it has returned -1.
Negotiated ==
    /\ LastOp.op = "find_best_format"
    /\ Occurs("get kAudioStreamPropertyAvailablePhysicalFormats", TRUE)

C10_MemberOrNotFound ==
    Negotiated =>
        /\ (\E j \in 1..Len(formats) : formats[j].mFormatID # NoFormatID)
             => (LastOp.ok /\ \E j \in 1..Len(formats) : hwfmt = formats[j])
        /\ formats = <<>> => ~LastOp.ok

C10_Witness ==
    /\ Negotiated
    /\ Len(formats) = 2
    /\ formats[1].mFormatID = NoFormatID
    /\ formats[2].mFormatID = "cac3"
    /\ ao.format = "S16"
    /\ hwfmt = formats[2]
    /\ LastOp.ok

\* C11: when the negotiator has run over a non-empty candidate list none of
\* whose entries has the format family of the request, it has returned -1
\* and init has taken its error path.
RequiredFamily == ca_fill_asbd(ao).mFormatID

C11_WrongFamilyNotFound ==
    (/\ Negotiated
     /\ formats # <<>>
     /\ \A j \in 1..Len(formats) : formats[j].mFormatID # RequiredFamily)
        => (~LastOp.ok /\ pc = "coreaudio_error")

\* C12 (as stated): the stream selector skips every sub-stream that is not an
\* output and selects the first remaining one that supports the family (any
\* output for PCM, a compressed-capable one for passthrough), recording its
\* handle and index; with no such stream it returns -1 and init aborts.
Selected ==
    /\ LastOp.op = "select_stream"
    /\ Occurs("get kAudioDevicePropertyStreams", TRUE)

SupportsFamily(k) == af_fmt_is_pcm(ao.format) \/ streams[k].compressed
OutputStreams == {k \in 1..Len(streams) : streams[k].direction = 0}
\* the streams line 185 does not skip: those not seen to be a non-output
NotSkipped ==
    {k \in 1..Len(streams) : ~(streams[k].dirOk /\ streams[k].direction # 0)}

SelectsFirstOf(S) ==
    LET usable == {k \in S : SupportsFamily(k)} IN
        IF usable = {}
        THEN /\ ~LastOp.ok
             /\ pc = "coreaudio_error"
             /\ p.stream_idx = -1
             /\ p.stream = 0
        ELSE /\ LastOp.ok
             /\ pc = "init_find_best_format"
             /\ \E k \in usable :
                  /\ \A j \in usable : k <= j
                  /\ p.stream = StreamID(k)
                  /\ p.stream_idx = k - 1

C12_SkipsNonOutput == Selected => SelectsFirstOf(OutputStreams)

\* C12 (amended): the selector skips every sub-stream whose direction it read
\* as non-output, and treats one whose direction could not be read as a
\* candidate; it selects the first candidate supporting the family, records
\* its handle and index, and returns -1 (init aborts) when there is none.
C12_SkipsSeenNonOutput == Selected => SelectsFirstOf(NotSkipped)

C12_Witness ==
    /\ Selected
    /\ Len(streams) = 2
    /\ streams[1] = [dirOk |-> TRUE, direction |-> 1, compressed |-> TRUE]
    /\ streams[2] = [dirOk |-> FALSE, direction |-> 0, compressed |-> TRUE]
    /\ ao.format = "S_AC3"
    /\ p.stream = StreamID(2)
    /\ p.stream_idx = 1

\* C13: after an init that succeeded and an uninit, no step of either having
\* failed, the device's mixing setting is what it was before init, whether
\* mixing was enabled or disabled before; while the session runs mixing is
\* off and changed_mixing holds the setting found before it was turned off.
NoStepFailed == \A i \in 1..Len(log) : log[i].ok

C13_MixingRoundTrip ==
    NoStepFailed =>
        /\ pc \in {"running"} \cup UninitPcs =>
             (/\ p.changed_mixing = pre.mixing
              /\ Occurs("ca_disable_mixing", TRUE))
        /\ pc \in {"running", "uninit_stop", "uninit_destroy", "uninit_format",
                   "uninit_mixing"} => ~dev.mixing
        /\ pc \in {"uninit_unlock", "uninit_done"} =>
             (/\ Occurs("ca_enable_mixing", TRUE)
              /\ dev.mixing = pre.mixing)

C13_Witness ==
    /\ pc = "uninit_done"
    /\ NoStepFailed
    /\ pre.mixing
    /\ p.changed_mixing
    /\ Occurs("ca_disable_mixing", TRUE)
    /\ Occurs("ca_enable_mixing", TRUE)
    /\ dev.mixing

\* C14: between init returning success and uninit starting, no step changes
\* a field of struct priv other than reload_requested: pause, resume and the
\* render callback change none, and reload_requested changes only in a step
\* of a notification delivery, which changes nothing else of struct priv.
C14_SessionFrame ==
    [][(pc = "running" /\ pc' = "running") =>
          /\ p' = [p EXCEPT !.reload_requested = p'.reload_requested]
          /\ (p'.reload_requested # p.reload_requested) => (lpc' # lpc)
          /\ (lpc' = lpc) => (p' = p)
          /\ UNCHANGED <<ao, hwfmt>>]_vars

C14_Witness ==
    /\ pc = "running"
    /\ rc.called
    /\ rc.status = "noErr"
    /\ ~dev.started
    /\ p.reload_requested
    /\ reloads = 1
    /\ [p EXCEPT !.reload_requested = FALSE, !.hog_pid = -1] =
         [priv_defaults EXCEPT !.device = DeviceID, !.stream = StreamID(2),
                               !.stream_idx = 1, !.stream_asbd = AC3,
                               !.original_asbd = pre.phys, !.changed_mixing = TRUE,
                               !.render_cb = "render_cb_compressed",
                               !.hw_latency_us = p.hw_latency_us]

\* C15: when init has failed, the calls it made after the failing step are
\* the undo steps in reverse order of acquisition: unregister the render
\* callback, remove the listeners, restore the physical format, restore
\* mixing, release the hog lock, each one exactly when its acquisition step
\* had completed.
AbortIdx ==
    CHOOSE i \in 1..Len(log) :
        /\ ~log[i].ok /\ log[i].op \notin WarningSteps
        /\ \A j \in 1..(i - 1) : log[j].ok \/ log[j].op \in WarningSteps

RollbackOps == [k \in 1..(Len(log) - AbortIdx) |-> log[AbortIdx + k].op]

UndoIf(acquired, undo) == IF Occurs(acquired, TRUE) THEN <<undo>> ELSE <<>>

ReverseOfAcquisition ==
    UndoIf("AudioDeviceCreateIOProcID", "AudioDeviceDestroyIOProcID")
    \o UndoIf("enable_property_listener(true)", "enable_property_listener(false)")
    \o UndoIf("ca_change_physical_format_sync(hwfmt)",
              "ca_change_physical_format_sync(original_asbd)")
    \o UndoIf("ca_disable_mixing", "ca_enable_mixing")
    \o UndoIf("ca_lock_device", "ca_unlock_device")

C15_ReverseRollback ==
    pc = "init_failed" => RollbackOps = ReverseOfAcquisition

\* C16: the stream's physical format is captured in original_asbd before
\* init attempts any switch; a session whose capture failed attempts no
\* switch; and the only format uninit writes back is the captured one, so
\* the stream only ever holds the format found before init or hwfmt.
Capture == "get kAudioStreamPropertyPhysicalFormat"
Switch  == "ca_change_physical_format_sync(hwfmt)"
Restore == "ca_change_physical_format_sync(original_asbd)"

C16_CapturedBeforeSwitch ==
    /\ \A i \in 1..Len(log) :
         log[i].op = Switch =>
            /\ \E j \in 1..(i - 1) : log[j] = Op(Capture, TRUE)
            /\ p.original_asbd = pre.phys
    /\ Occurs(Capture, FALSE) =>
         (/\ ~Occurs(Switch, TRUE) /\ ~Occurs(Switch, FALSE)
          /\ dev.phys = pre.phys)
    /\ dev.phys \in {pre.phys, hwfmt}
    /\ dev.phys # pre.phys => p.original_asbd = pre.phys
    /\ Occurs(Restore, TRUE) => (dev.phys = p.original_asbd /\ dev.phys = pre.phys)

C16_Witness ==
    /\ pc = "uninit_done"
    /\ Occurs(Switch, TRUE)
    /\ Occurs(Restore, TRUE)
    /\ hwfmt = AC3
    /\ p.original_asbd = pre.phys
    /\ dev.phys = pre.phys

\* C17: a session that runs has a listener subscribed on both notification
\* sources; the first call uninit makes is the listener removal, before the
\* device is stopped or anything is restored, and when that call reports
\* success no listener of the session remains subscribed.
BothSources == {ListenerSources[n] : n \in 1..2}

C17_ListenerSymmetry ==
    /\ pc = "running" =>
         (/\ dev.listeners = BothSources
          /\ LastOp = Op("AudioDeviceCreateIOProcID", TRUE))
    /\ pc \in UninitPcs \cup {"uninit_done"} =>
         \E i \in 1..(Len(log) - 1) :
            /\ log[i] = Op("AudioDeviceCreateIOProcID", TRUE)
            /\ log[i + 1].op = "enable_property_listener(false)"
            /\ log[i + 1].ok => dev.listeners = {}
            /\ dev.listeners \subseteq BothSources
            /\ \A j \in 1..Len(log) :
                 log[j].op \in {TeardownSteps[k] : k \in 2..Len(TeardownSteps)}
                    => j > i + 1

C17_Witness ==
    /\ pc = "uninit_done"
    /\ Occurs("enable_property_listener(true)", TRUE)
    /\ Occurs("enable_property_listener(false)", TRUE)
    /\ dev.listeners = {}

\* C18 (as stated): once uninit is past stopping the device and destroying
\* the IOProc, that is from the format restore on, no render callback can
\* begin, under every interleaving with the device clock thread.
RestoringPcs == {"uninit_format", "uninit_mixing", "uninit_unlock", "uninit_done"}

C18_NoRenderAfterRestore ==
    pc \in RestoringPcs => ~ENABLED render_cb_compressed

\* C18 (amended): uninit calls AudioDeviceStop and then
\* AudioDeviceDestroyIOProcID before it restores the format, mixing or the
\* lock; when at least one of the two calls succeeded no render callback can
\* begin from the format restore on; when both failed uninit goes on all the
\* same and the callback can still be invoked.
C18_StoppedBeforeRestore ==
    pc \in RestoringPcs =>
        /\ \E i, j \in 1..Len(log) :
             /\ i < j
             /\ log[i].op = "AudioDeviceStop"
             /\ log[j].op = "AudioDeviceDestroyIOProcID"
             /\ \A k \in 1..Len(log) :
                  log[k].op \in {TeardownSteps[n] : n \in 4..Len(TeardownSteps)}
                     => k > j
        /\ (Occurs("AudioDeviceStop", TRUE) \/ Occurs("AudioDeviceDestroyIOProcID", TRUE))
             => ~ENABLED render_cb_compressed
        /\ ENABLED render_cb_compressed => (dev.ioproc /\ dev.started)

C18_Witness ==
    /\ pc = "uninit_done"
    /\ rc.called
    /\ Occurs("AudioDeviceStop", FALSE)
    /\ Occurs("AudioDeviceDestroyIOProcID", TRUE)
    /\ Occurs("ca_change_physical_format_sync(original_asbd)", TRUE)
    /\ ~dev.ioproc
    /\ ~ENABLED render_cb_compressed

\* C19: a delivery that could not read the live format goes on to the
\* compare-and-set exactly as one that read a different format does; there
\* it requests a reload if reload_requested was false and does nothing if it
\* was already true. So once every delivery has returned, deliveries that
\* could not read the format have caused exactly one reload in total.
C19_ReadFailureIsMismatch ==
    /\ []((Quiescent /\ delivered.unread >= 1) => (reloads = 1 /\ p.reload_requested))
    /\ [][/\ (delivered'.unread # delivered.unread \/ delivered'.differ # delivered.differ)
             => \E t \in 1..NListeners :
                   /\ lpc[t] = "idle"
                   /\ lpc'[t] = "cas"
                   /\ (delivered'.unread # delivered.unread) => ~lsaw'[t].ok
                   /\ (delivered'.differ # delivered.differ) => ~lsaw'[t].eq
                   /\ p' = p /\ reloads' = reloads
          /\ \A t \in 1..NListeners :
                (lpc[t] = "cas" /\ lpc'[t] # "cas") =>
                    IF p.reload_requested
                    THEN lpc'[t] = "idle" /\ p' = p /\ reloads' = reloads
                    ELSE lpc'[t] = "reload" /\ p'.reload_requested
          /\ reloads' # reloads
             => \E t \in 1..NListeners : lpc[t] = "reload" /\ reloads' = reloads + 1]_vars

C19_Witness ==
    /\ Quiescent
    /\ delivered.unread >= 2
    /\ delivered.differ = 0
    /\ reloads = 1
    /\ p.reload_requested

\* C20: when device selection has failed, or the format is neither PCM nor
\* S/PDIF, init returns CONTROL_ERROR having made no lock, mixing, stream,
\* format, listener or callback call and without the listener removal and
\* unlock of its error path: the device is untouched and hog_pid,
\* changed_mixing, stream and stream_idx keep their defaults.
EarlySteps == {"ca_select_device", "format is pcm or spdif"}

C20_EarlyFailureTouchesNothing ==
    Failed(EarlySteps) =>
        /\ pc \in {"coreaudio_error_nounlock", "init_failed"}
        /\ pc = "init_failed" => ret = "CONTROL_ERROR"
        /\ ret # "CONTROL_TRUE"
        /\ \A i \in 1..Len(log) : log[i].op \in EarlySteps
        /\ ~LastOp.ok
        /\ dev = pre
        /\ p.hog_pid = priv_defaults.hog_pid /\ p.hog_pid = -1
        /\ p.changed_mixing = FALSE
        /\ p.stream = 0
        /\ p.stream_idx = -1
        /\ p \in {priv_defaults, [priv_defaults EXCEPT !.device = DeviceID]}

C20_Witness ==
    /\ pc = "init_failed"
    /\ ret = "CONTROL_ERROR"
    /\ ao.format = "UNKNOWN"
    /\ log = <<Op("ca_select_device", TRUE), Op("format is pcm or spdif", FALSE)>>
    /\ dev = pre
    /\ p = [priv_defaults EXCEPT !.device = DeviceID]

====
